---- MODULE Spec2Model ----
(***************************************************************************)
(* Connection lifecycle manager of WhatsAppService (src/unnamed/part_000,  *)
(* lines 22-1003): createConnection / _createConnectionInternal, the       *)
(* connection.update listener with its QR timer, handleConnectionUpdate,   *)
(* the delayed reconnection and removeConnection.                          *)
(*                                                                         *)
(* Every await of the source is an interleaving point: the code before it  *)
(* and the code after it are different steps.  A transport handle (socket) *)
(* is named by its epoch number; the ConnectionStatus object created with  *)
(* it carries the same number, and the maps hold references (numbers) to   *)
(* these mutable objects, 0 standing for "no entry" / undefined.           *)
(*                                                                         *)
(* A step is what one turn of the event loop does: a promise that settles  *)
(* runs its continuations (the finally block of createConnection, the      *)
(* callers awaiting it, the lines after "await this.removeConnection") as  *)
(* microtasks of the same turn, before any timer, I/O completion or        *)
(* transport event is served.                                              *)
(***************************************************************************)
EXTENDS Integers, FiniteSets, Sequences, TLC

\* ---------------------------------------------------------------- bounds
NCalls == 2          \* createConnection invocations running at once per key
MaxQr == 2           \* QR payload events one handle emits
RaceEpochs == 2      \* Spec: handles created per key
MaxUserCreates == 2  \* Spec: createConnection calls issued by callers per key
MaxUserRemoves == 1  \* Spec: removeConnection calls issued by callers per key
RetryEpochs == 4     \* SpecRetry: handles created per key
RetryCreates == 1    \* SpecRetry: createConnection calls issued by callers per key
StaleEpochs == 3     \* SpecStale: handles created per key
CallerCreates == 4   \* SpecCallers: createConnection calls issued by callers per key
CallerEpochs == 2    \* SpecCallers: handles created per key
OverlapCreates == 3  \* SpecOverlap: createConnection calls issued by callers per key
OverlapRemoves == 1  \* SpecOverlap: removeConnection calls issued by callers per key
OverlapEpochs == 3   \* SpecOverlap: handles created per key
SendCreates == 1     \* SpecSend: createConnection calls issued by callers per key
SendEpochs == 2      \* SpecSend: handles created per key
LoopCreates == 1     \* SpecLoop: createConnection calls issued by callers per key
LoopEpochs == 4      \* SpecLoop: handles created per key
PairCreates == 1     \* SpecPair: createConnection calls issued by callers per key
PairEpochs == 1      \* SpecPair: handles created per key
ReloadCreates == 1   \* SpecReload: createConnection calls issued by callers per key
ReloadEpochs == 2    \* SpecReload: handles created per key
MaxEpoch == 4        \* the most handles any specification creates per key

\* ------------------------------------------------------- program constants
MAX_RECONNECT_ATTEMPTS == 3
\* close reason codes (DisconnectReason of the transport, and the literals
\* 408 and 515 of handleConnectionUpdate); Undef is "errorCode undefined"
Undef == 0
loggedOut == 401
forbidden == 403
connectionLost == 408
connectionClosed == 428
badSession == 500
restartRequired == 515

\* callers use key "a"; key "b" is used only where two sessions are followed
Keys == {"a", "b"}
Epochs == 1..MaxEpoch
Slots == 1..NCalls
\* codes a transport reports of its own accord, with or without a message
\* that contains "405"
CloseCodes == {loggedOut, forbidden, connectionLost, connectionClosed, badSession, restartRequired}

VARIABLES
  connections,        \* key -> epoch of the registered socket, 0 = none
  connectionStatus,   \* key -> id of the registered status object, 0 = none
  statusObj,          \* key -> id -> the ConnectionStatus object
  connectionLocks,    \* key -> BOOLEAN
  connectionPromises, \* key -> slot of the call that registered the promise, 0 = none
  reconnectAttempts,  \* key -> 1..3, 0 = no entry (the code never stores 0)
  qrLocks,            \* key -> BOOLEAN
  authDir,            \* key -> epoch whose credentials the folder holds, 0 = no folder
  sockets,            \* key -> epoch -> state of the socket and of its listener closure
  nextEpoch,          \* key -> number of the next socket makeWASocket returns
  reconnectTimers,    \* key -> epochs whose close handler has a setTimeout(3000) pending
  calls,              \* key -> slot -> a createConnection invocation
  removals,           \* key -> owner -> a removeConnection invocation (0 = API caller, e = close handler of epoch e)
  streak,             \* key -> closes taken down the reconnectable branch since the last open
  budget,             \* key -> calls the callers may still issue, sockets the transport may still make
  last                \* the step taken last: what ran, for which socket, which branch it took

vars == <<connections, connectionStatus, statusObj, connectionLocks, connectionPromises,
          reconnectAttempts, qrLocks, authDir, sockets, nextEpoch, reconnectTimers,
          calls, removals, streak, budget, last>>

\* ------------------------------------------------------------ initial state
NoStatus == [status |-> "none", qrCode |-> 0, error |-> "none", phoneNumber |-> FALSE]
NoSocket == [st |-> "none", opened |-> FALSE, qrShown |-> FALSE, qrTimeout |-> "null",
             qrSeq |-> 0, provoked |-> Undef]
IdleCall == [pc |-> "idle", recon |-> FALSE, timer |-> FALSE, joinOf |-> 0, start |-> 0]
IdleRemoval == [pc |-> "idle", sock |-> 0, live |-> FALSE, path |-> "none", statusRef |-> 0]
Step(op, k, e, tag, code, has405) ==
  [op |-> op, key |-> k, e |-> e, tag |-> tag, code |-> code, has405 |-> has405]

\* the service right after construction; dirs gives per key what the session
\* folder holds, bs what callers and transport do afterwards
InitState(bs, dirs) ==
  /\ connections = [k \in Keys |-> 0]
  /\ connectionStatus = [k \in Keys |-> 0]
  /\ statusObj = [k \in Keys |-> [e \in Epochs |-> NoStatus]]
  /\ connectionLocks = [k \in Keys |-> FALSE]
  /\ connectionPromises = [k \in Keys |-> 0]
  /\ reconnectAttempts = [k \in Keys |-> 0]
  /\ qrLocks = [k \in Keys |-> FALSE]
  /\ authDir = dirs
  /\ sockets = [k \in Keys |-> [e \in Epochs |-> NoSocket]]
  /\ nextEpoch = [k \in Keys |-> 1]
  /\ reconnectTimers = [k \in Keys |-> {}]
  /\ calls = [k \in Keys |-> [c \in Slots |-> IdleCall]]
  /\ removals = [k \in Keys |-> [o \in 0..MaxEpoch |-> IdleRemoval]]
  /\ streak = [k \in Keys |-> 0]
  /\ budget = bs
  /\ last = Step("init", "a", 0, "none", 0, FALSE)

\* the service right after construction, no session folder on disk
InitFor(bs) == InitState(bs, [k \in Keys |-> 0])

\* a key nobody uses
NoBudget == [creates |-> 0, removes |-> 0, epochs |-> 0]
\* one session, of key "a", bounded by b
InitWith(b) == InitFor([k \in Keys |-> IF k = "a" THEN b ELSE NoBudget])
\* the keys in use: those the transport may make a socket for
Active == {k \in Keys : budget[k].epochs > 0}

\* ------------------------------------------------------------------ helpers
\* status.status of the registered status object, "none" without an entry
StatusOf(k) == IF connectionStatus[k] = 0 THEN "none" ELSE statusObj[k][connectionStatus[k]].status

\* the least free invocation slot (slots are interchangeable)
FreeSlot(k) == CHOOSE c \in Slots : calls[k][c].pc = "idle" /\ \A d \in Slots : calls[k][d].pc = "idle" => c <= d

\* a status object nothing refers to any more (neither the registry nor a
\* suspended handleConnectionUpdate) is garbage: it is kept in its blank form
Reachable(objs, reg, rems) ==
  [k \in Keys |-> [e \in Epochs |->
     IF reg[k] = e \/ \E o \in 0..MaxEpoch : rems[k][o].statusRef = e
       THEN objs[k][e] ELSE NoStatus]]

\* a turn is under way (no other step may start): socket.logout() has resolved with its close event
\* emitted inside it, removeConnection has not resumed yet
MidTurn == \E k \in Keys, o \in 0..MaxEpoch : removals[k][o].pc = "loggedOut"

\* variant: the catch block only logs
ReconnectCatchLogsOnly(k, objs, rejected) == objs

\* the catch block of the delayed reconnection: applied to the status objects
\* when the awaited createConnection rejected
ReconnectCatch(k, objs, rejected) ==
  IF rejected /\ connectionStatus[k] # 0
    THEN [objs EXCEPT ![k][connectionStatus[k]].status = "error",
                      ![k][connectionStatus[k]].error = "reconnectFailed"]
    ELSE objs

\* ---------------------------------------------------------- createConnection
\* variant: the finally block leaves the promise registered
promiseKept(k) == connectionPromises

\* the finally block of createConnection: connectionPromises.delete
promiseDeleted(k) == [connectionPromises EXCEPT ![k] = 0]

\* variant: the in-flight promise is never found
existingPromiseNone(k) == 0

\* PROTEÇÃO 1: the in-flight promise of the key, 0 if there is none
existingPromise(k) == connectionPromises[k]

\* variant: PROTEÇÃO 3 returns whatever status is registered
CreateBranchAnyStatus(k, isReconnection) ==
  IF existingPromise(k) # 0 THEN "join"
  ELSE IF connectionLocks[k]
    THEN (IF connectionStatus[k] # 0 THEN "lockedStatus" ELSE "lockedThrow")
  ELSE IF connectionStatus[k] # 0 /\ ~isReconnection THEN "current"
  ELSE IF isReconnection /\ StatusOf(k) = "connecting" THEN "reconIgnored"
  ELSE IF connections[k] # 0 THEN "abort"
  ELSE "create"

\* variant: PROTEÇÃO 2 and PROTEÇÃO 3 left out
CreateBranchUnguarded(k, isReconnection) ==
  IF existingPromise(k) # 0 THEN "join"
  ELSE IF isReconnection /\ StatusOf(k) = "connecting" THEN "reconIgnored"
  ELSE IF connections[k] # 0 THEN "abort"
  ELSE "create"

\* variant: without the test of lines 113-117 (reconnection while connecting)
CreateBranchReconUnchecked(k, isReconnection) ==
  IF existingPromise(k) # 0 THEN "join"
  ELSE IF connectionLocks[k]
    THEN (IF connectionStatus[k] # 0 THEN "lockedStatus" ELSE "lockedThrow")
  ELSE IF connectionStatus[k] # 0 /\ ~isReconnection
          /\ StatusOf(k) \in {"connecting", "connected"} THEN "current"
  ELSE IF connections[k] # 0 THEN "abort"
  ELSE "create"

\* the branch createConnection takes before it starts any work
CreateBranch(k, isReconnection) ==
  IF existingPromise(k) # 0 THEN "join"
  ELSE IF connectionLocks[k]
    THEN (IF connectionStatus[k] # 0 THEN "lockedStatus" ELSE "lockedThrow")
  ELSE IF connectionStatus[k] # 0 /\ ~isReconnection
          /\ StatusOf(k) \in {"connecting", "connected"} THEN "current"
  ELSE IF isReconnection /\ StatusOf(k) = "connecting" THEN "reconIgnored"
  ELSE IF connections[k] # 0 THEN "abort"
  ELSE "create"

\* createConnection up to its first real wait.  Branch "abort" is
\* _createConnectionInternal finding a registered socket: lock set and
\* deleted, promise registered already resolved and deleted by the finally
\* block in the same turn.  Branch "create" runs _createConnectionInternal up
\* to the 500 ms debounce.  budget and reconnectTimers are left to the caller.
createConnection(k, c, isReconnection, timer) ==
  LET b == CreateBranch(k, isReconnection)
      call == [pc |-> "idle", recon |-> isReconnection, timer |-> timer, joinOf |-> 0,
               start |-> nextEpoch[k]]
  IN
  /\ calls[k][c].pc = "idle"
  /\ CASE b = "join" ->
            /\ calls' = [calls EXCEPT ![k][c] = [call EXCEPT !.pc = "joined", !.joinOf = existingPromise(k)]]
            /\ UNCHANGED <<connectionLocks, connectionPromises, statusObj>>
       [] b \in {"lockedStatus", "current", "reconIgnored"} ->
            UNCHANGED <<calls, connectionLocks, connectionPromises, statusObj>>
       [] b = "lockedThrow" ->
            /\ statusObj' = ReconnectCatch(k, statusObj, timer)
            /\ UNCHANGED <<calls, connectionLocks, connectionPromises>>
       [] b = "abort" ->
            /\ connectionLocks' = [connectionLocks EXCEPT ![k] = FALSE]
            /\ connectionPromises' = promiseDeleted(k)
            /\ UNCHANGED <<calls, statusObj>>
       [] b = "create" ->
            /\ connectionLocks' = [connectionLocks EXCEPT ![k] = TRUE]
            /\ connectionPromises' = [connectionPromises EXCEPT ![k] = c]
            /\ calls' = [calls EXCEPT ![k][c] = [call EXCEPT !.pc = "debounce"]]
            /\ UNCHANGED statusObj
  /\ UNCHANGED <<connections, connectionStatus, reconnectAttempts, qrLocks, authDir,
                 sockets, nextEpoch, removals, streak>>

\* a caller (the HTTP controller) calls createConnection(k): isReconnection = false
UserCreate(k) ==
  /\ ~MidTurn
  /\ budget[k].creates > 0
  /\ \E c \in Slots : calls[k][c].pc = "idle"
  /\ createConnection(k, FreeSlot(k), FALSE, FALSE)
  /\ budget' = [budget EXCEPT ![k].creates = @ - 1]
  /\ last' = Step("create", k, 0, CreateBranch(k, FALSE), 0, FALSE)
  /\ UNCHANGED reconnectTimers

\* the setTimeout(3000) callback of a reconnectable close: createConnection(k, true)
ReconnectTimerFires(k, e) ==
  /\ ~MidTurn
  /\ e \in reconnectTimers[k]
  /\ \E c \in Slots : calls[k][c].pc = "idle"
  /\ createConnection(k, FreeSlot(k), TRUE, TRUE)
  /\ reconnectTimers' = [reconnectTimers EXCEPT ![k] = @ \ {e}]
  /\ last' = Step("reconnect", k, e, CreateBranch(k, TRUE), 0, FALSE)
  /\ UNCHANGED budget

\* loadExistingConnections, called by the constructor: for the session folder
\* of key k found on disk, createConnection(k, true); what it throws is only
\* logged.  Callers may be served before it gets to the folder.
StartupReload(k) ==
  /\ ~MidTurn
  /\ budget[k].reloads > 0
  /\ \E c \in Slots : calls[k][c].pc = "idle"
  /\ createConnection(k, FreeSlot(k), TRUE, FALSE)
  /\ budget' = [budget EXCEPT ![k].reloads = @ - 1]
  /\ last' = Step("reload", k, 0, CreateBranch(k, TRUE), 0, FALSE)
  /\ UNCHANGED reconnectTimers

\* the calls that get the outcome of the promise call c registered: c itself
\* and every call that returned that promise
Awaiting(k, c) == {d \in Slots : d = c \/ (calls[k][d].pc = "joined" /\ calls[k][d].joinOf = c)}

\* the promise of call c settles: finally block (connectionPromises.delete),
\* all awaiting calls return; a delayed reconnection among them runs its catch
SettleCalls(k, c) == [calls EXCEPT ![k] = [d \in Slots |-> IF d \in Awaiting(k, c) THEN IdleCall ELSE @[d]]]
SettleCatch(k, c, rejected) ==
  ReconnectCatch(k, statusObj, rejected /\ \E d \in Awaiting(k, c) : calls[k][d].timer)

\* _createConnectionInternal after the 500 ms debounce, up to the first fs
\* await: the second look at connections (a reconnection ends a registered
\* socket unless the status is connecting, a non-reconnection throws "Conexão já
\* existe").  No socket can be registered during the debounce while the promise
\* of this creation is registered, so TLC never finds either branch taken.
DebounceDone(k, c) ==
  LET me == calls[k][c]
      has == connections[k] # 0
      endOld == me.recon /\ has /\ StatusOf(k) # "connecting"
      throws == ~me.recon /\ has
  IN
  /\ ~MidTurn
  /\ me.pc = "debounce"
  /\ connections' = IF endOld THEN [connections EXCEPT ![k] = 0] ELSE connections
  /\ sockets' = IF endOld /\ sockets[k][connections[k]].st = "live"
                  THEN [sockets EXCEPT ![k][connections[k]].st = "ended",
                                       ![k][connections[k]].provoked = Undef]
                  ELSE sockets
  /\ connectionLocks' = IF throws THEN [connectionLocks EXCEPT ![k] = FALSE] ELSE connectionLocks
  /\ connectionPromises' = IF throws THEN promiseDeleted(k) ELSE connectionPromises
  /\ calls' = IF throws THEN SettleCalls(k, c) ELSE [calls EXCEPT ![k][c].pc = "io"]
  /\ statusObj' = IF throws THEN SettleCatch(k, c, TRUE) ELSE statusObj
  /\ last' = Step("debounce", k, 0, IF throws THEN "throw" ELSE "ok", 0, FALSE)
  /\ UNCHANGED <<connectionStatus, reconnectAttempts, qrLocks, authDir, nextEpoch,
                 reconnectTimers, removals, streak, budget>>

\* variant: the old session folder is removed on every creation
authPathAlwaysPurged(k, isReconnection) == 0

\* the session folder after "if (!isReconnection && pathExists) fs.remove":
\* 0 = no folder left
authPathPurged(k, isReconnection) == IF ~isReconnection THEN 0 ELSE authDir[k]

\* the rest of _createConnectionInternal: purge of the old session folder on a
\* non-reconnection, ensureDir, useMultiFileAuthState, makeWASocket, registration
\* of socket and status, return; fails = the transport throws before a socket
\* exists (catch: lock released, rethrown)
IoDone(k, c, fails) ==
  LET me == calls[k][c]
      e == nextEpoch[k]
      purged == authPathPurged(k, me.recon)
  IN
  /\ ~MidTurn
  /\ me.pc = "io"
  /\ connectionPromises' = promiseDeleted(k)
  /\ calls' = SettleCalls(k, c)
  /\ IF fails
       THEN /\ authDir' = [authDir EXCEPT ![k] = purged]
            /\ connectionLocks' = [connectionLocks EXCEPT ![k] = FALSE]
            /\ statusObj' = SettleCatch(k, c, TRUE)
            /\ UNCHANGED <<connections, connectionStatus, sockets, nextEpoch>>
       ELSE /\ e <= budget[k].epochs
            /\ authDir' = [authDir EXCEPT ![k] = IF purged = 0 THEN e ELSE purged]
            /\ sockets' = [sockets EXCEPT ![k][e] = [NoSocket EXCEPT !.st = "live"]]
            /\ connections' = [connections EXCEPT ![k] = e]
            /\ connectionStatus' = [connectionStatus EXCEPT ![k] = e]
            /\ nextEpoch' = [nextEpoch EXCEPT ![k] = e + 1]
            /\ statusObj' = Reachable([statusObj EXCEPT ![k][e] = [NoStatus EXCEPT !.status = "connecting"]],
                                      connectionStatus', removals)
            /\ UNCHANGED connectionLocks
  /\ last' = Step("io", k, IF fails THEN 0 ELSE e,
                   IF fails THEN "throw" ELSE IF me.recon THEN "reconnected" ELSE "created", 0, FALSE)
  /\ UNCHANGED <<reconnectAttempts, qrLocks, reconnectTimers, removals, streak, budget>>

\* ------------------------------------------------------------ removeConnection
\* removeConnection up to its first await: with a registered socket it awaits
\* socket.logout(); without one it deletes both map entries and awaits the
\* file system.  Gives the invocation record (live: the socket it found had
\* not been ended and had not closed).
RemoveStart(k, path, ref) ==
  IF connections[k] # 0
    THEN [pc |-> "logout", sock |-> connections[k], live |-> sockets[k][connections[k]].st = "live",
          path |-> path, statusRef |-> ref]
    ELSE [pc |-> "fs", sock |-> 0, live |-> FALSE, path |-> path, statusRef |-> ref]

\* what the caller of removeConnection does once it has returned (true or
\* false): the API caller nothing, handleConnectionUpdate the lines after its
\* await, with the status object it held before
AfterRemoveConnections(k, r, conns) ==
  IF r.path = "timeout" THEN [conns EXCEPT ![k] = 0] ELSE conns
AfterRemoveStatus(k, r, reg) ==
  IF r.path \in {"timeout", "fatal"} THEN [reg EXCEPT ![k] = r.statusRef] ELSE reg
AfterRemoveLocks(k, r) ==
  IF r.path \in {"timeout", "fatal"} THEN [connectionLocks EXCEPT ![k] = FALSE] ELSE connectionLocks

\* variant: removeConnection deletes the status and leaves the socket registered
socketKept(k) == connections

\* this.connections.delete(connectionId) of removeConnection
socketDeregistered(k) == [connections EXCEPT ![k] = 0]

\* a caller (the HTTP controller) calls removeConnection(k)
UserRemove(k) ==
  /\ ~MidTurn
  /\ budget[k].removes > 0
  /\ removals[k][0].pc = "idle"
  /\ budget' = [budget EXCEPT ![k].removes = @ - 1]
  /\ removals' = [removals EXCEPT ![k][0] = RemoveStart(k, "api", 0)]
  /\ connectionStatus' = IF connections[k] = 0 THEN [connectionStatus EXCEPT ![k] = 0] ELSE connectionStatus
  /\ statusObj' = Reachable(statusObj, connectionStatus', removals')
  /\ last' = Step("remove", k, 0, "api", 0, FALSE)
  /\ UNCHANGED <<connections, connectionLocks, connectionPromises, reconnectAttempts,
                 qrLocks, authDir, sockets, nextEpoch, reconnectTimers, calls, streak>>

\* socket.logout() resolves: the transport has signed out and ended the
\* socket.  A live socket that is ended reports a close with loggedOut; sync =
\* the transport emits it inside logout(), so that the listener runs in the
\* same turn, before removeConnection resumes (steps ProvokedClose, then
\* RemoveResumes, with nothing in between); otherwise removeConnection resumes
\* at once (both map entries deleted, file system awaited) and the event is
\* delivered in a later turn.
LogoutResolves(k, o, sync) ==
  LET r == removals[k][o]
      live == sockets[k][r.sock].st = "live"
  IN
  /\ ~MidTurn
  /\ r.pc = "logout"
  /\ sync => live
  /\ sockets' = IF live
                  THEN [sockets EXCEPT ![k][r.sock].st = "ended", ![k][r.sock].provoked = loggedOut]
                  ELSE sockets
  /\ removals' = [removals EXCEPT ![k][o].pc = IF sync THEN "loggedOut" ELSE "fs"]
  /\ connections' = IF sync THEN connections ELSE socketDeregistered(k)
  /\ connectionStatus' = IF sync THEN connectionStatus ELSE [connectionStatus EXCEPT ![k] = 0]
  /\ statusObj' = Reachable(statusObj, connectionStatus', removals')
  /\ last' = Step("logoutResolves", k, o, r.path, 0, FALSE)
  /\ UNCHANGED <<connectionLocks, connectionPromises, reconnectAttempts, qrLocks, authDir,
                 nextEpoch, reconnectTimers, calls, streak, budget>>

\* socket.logout() rejects: the catch block returns false, nothing was deleted
LogoutRejects(k, o) ==
  LET r == removals[k][o] IN
  /\ ~MidTurn
  /\ r.pc = "logout"
  /\ removals' = [removals EXCEPT ![k][o] = IdleRemoval]
  /\ connections' = AfterRemoveConnections(k, r, connections)
  /\ connectionStatus' = AfterRemoveStatus(k, r, connectionStatus)
  /\ connectionLocks' = AfterRemoveLocks(k, r)
  /\ statusObj' = Reachable(statusObj, connectionStatus', removals')
  /\ last' = Step("logoutRejects", k, o, r.path, 0, FALSE)
  /\ UNCHANGED <<connectionPromises, reconnectAttempts, qrLocks, authDir, sockets,
                 nextEpoch, reconnectTimers, calls, streak, budget>>

\* removeConnection resumes after a logout whose close event was handled in
\* the same turn: both map entries are deleted, then it awaits the file system
RemoveResumes(k, o) ==
  /\ removals[k][o].pc = "loggedOut"
  /\ sockets[k][removals[k][o].sock].st # "ended"
  /\ removals' = [removals EXCEPT ![k][o].pc = "fs"]
  /\ connections' = socketDeregistered(k)
  /\ connectionStatus' = [connectionStatus EXCEPT ![k] = 0]
  /\ statusObj' = Reachable(statusObj, connectionStatus', removals')
  /\ last' = Step("removeResumes", k, o, removals[k][o].path, 0, FALSE)
  /\ UNCHANGED <<connectionLocks, connectionPromises, reconnectAttempts, qrLocks,
                 authDir, sockets, nextEpoch, reconnectTimers, calls, streak, budget>>

\* the session folder is removed and removeConnection returns true
RemoveFsDone(k, o) ==
  LET r == removals[k][o] IN
  /\ ~MidTurn
  /\ r.pc = "fs"
  /\ removals' = [removals EXCEPT ![k][o] = IdleRemoval]
  /\ authDir' = [authDir EXCEPT ![k] = 0]
  /\ connections' = AfterRemoveConnections(k, r, connections)
  /\ connectionStatus' = AfterRemoveStatus(k, r, connectionStatus)
  /\ connectionLocks' = AfterRemoveLocks(k, r)
  /\ statusObj' = Reachable(statusObj, connectionStatus', removals')
  /\ last' = Step("removed", k, o, r.path, 0, FALSE)
  /\ UNCHANGED <<connectionPromises, reconnectAttempts, qrLocks, sockets, nextEpoch,
                 reconnectTimers, calls, streak, budget>>

\* ------------------------------------------------- connection.update listener
\* variant: the callback marks the status failed without naming the timeout
timeoutStatusUnnamed(s) == [s EXCEPT !.status = "error"]

\* what the timer callback writes into the registered status
timeoutStatus(s) == [s EXCEPT !.status = "error", !.error = "timeout"]

\* the setTimeout(5 min) callback armed with the first QR of socket e:
\* socket.end(undefined), then the deletes and the timeout status.  A live
\* socket that is ended reports a close without error; sync = the transport
\* emits it inside end(), so that the listener and handleConnectionUpdate (up
\* to its first await) run before the rest of the callback; otherwise the
\* event is delivered in a later turn (ProvokedClose).  Inside end() the timer
\* variable is set, so the listener clears both locks, as the callback does;
\* handleConnectionUpdate finds no error code and acts only if the registered
\* status already carries error "timeout".
QrTimeoutFires(k, e, sync) ==
  LET sk == sockets[k][e]
      sid == connectionStatus[k]
      emits == sync /\ sk.st = "live"
      handles == emits /\ sid # 0 /\ statusObj[k][sid].error = "timeout"
      reg == IF handles /\ connections[k] = 0 THEN 0 ELSE sid
      objs == IF reg # 0
                THEN [statusObj EXCEPT ![k][reg] = timeoutStatus(@)]
                ELSE IF handles
                  THEN [statusObj EXCEPT ![k][sid].status = "disconnected", ![k][sid].error = "timeout"]
                  ELSE statusObj
  IN
  /\ ~MidTurn
  /\ sk.qrTimeout = "armed"
  /\ sync => sk.st = "live"
  /\ sockets' = [sockets EXCEPT ![k][e] =
                   IF emits THEN [NoSocket EXCEPT !.st = "closed", !.opened = sk.opened]
                   ELSE [sk EXCEPT !.qrTimeout = "fired",
                                   !.st = IF sk.st = "live" THEN "ended" ELSE sk.st,
                                   !.provoked = IF sk.st = "live" THEN Undef ELSE sk.provoked]]
  /\ removals' = IF handles THEN [removals EXCEPT ![k][e] = RemoveStart(k, "timeout", sid)] ELSE removals
  /\ connectionStatus' = [connectionStatus EXCEPT ![k] = reg]
  /\ connections' = [connections EXCEPT ![k] = 0]
  /\ qrLocks' = [qrLocks EXCEPT ![k] = FALSE]
  /\ statusObj' = Reachable(objs, connectionStatus', removals')
  /\ connectionLocks' = [connectionLocks EXCEPT ![k] = FALSE]
  /\ last' = Step("qrTimeout", k, e, IF emits THEN "closeInside" ELSE "fired", 0, FALSE)
  /\ UNCHANGED <<connectionPromises, reconnectAttempts, authDir, nextEpoch,
                 reconnectTimers, calls, streak, budget>>

\* variant: only the first payload is recorded
qrCodeFirstOnly(shown, qr) == IF shown = 0 THEN qr ELSE shown

\* status.qrCode = qr: the payload the status shows after a QR event
qrCode(shown, qr) == qr

\* socket e emits connection.update {qr}: the listener (first QR only: flag,
\* QR lock, timer), then handleConnectionUpdate (every QR: payload into the
\* registered status)
QrEvent(k, e) ==
  LET sk == sockets[k][e]
      first == ~sk.qrShown /\ ~qrLocks[k]
      qr == sk.qrSeq + 1
      sid == connectionStatus[k]
  IN
  /\ ~MidTurn
  /\ sk.st = "live" /\ ~sk.opened /\ sk.qrSeq < MaxQr
  /\ sockets' = [sockets EXCEPT ![k][e].qrSeq = qr,
                                ![k][e].qrShown = IF first THEN TRUE ELSE @,
                                ![k][e].qrTimeout = IF first THEN "armed" ELSE @]
  /\ qrLocks' = IF first THEN [qrLocks EXCEPT ![k] = TRUE] ELSE qrLocks
  /\ statusObj' = IF sid # 0
                    THEN [statusObj EXCEPT ![k][sid].qrCode = qrCode(@, qr), ![k][sid].status = "connecting"]
                    ELSE statusObj
  /\ last' = Step("qr", k, e, IF first THEN "first" ELSE "later", 0, FALSE)
  /\ UNCHANGED <<connections, connectionStatus, connectionLocks, connectionPromises,
                 reconnectAttempts, authDir, nextEpoch, reconnectTimers, calls, removals,
                 streak, budget>>

\* variant: the listener leaves the timer as it is
qrTimeoutKept(t) == t

\* clearTimeout(qrTimeout); qrTimeout = null
qrTimeoutCleared(t) == "null"

\* variant: this.reconnectAttempts.clear()
attemptsAllDeleted(k) == [j \in Keys |-> 0]

\* this.reconnectAttempts.delete(connectionId)
attemptsDeleted(k) == [reconnectAttempts EXCEPT ![k] = 0]

\* socket e emits connection.update {connection: "open"}
OpenEvent(k, e) ==
  LET sk == sockets[k][e]
      hadTimer == sk.qrTimeout # "null"
      sid == connectionStatus[k]
      \* socket?.user?.id of the registered socket: known once that socket is open
      user == connections[k] # 0 /\ (connections[k] = e \/ sockets[k][connections[k]].opened)
  IN
  /\ ~MidTurn
  /\ sk.st = "live" /\ ~sk.opened
  /\ sockets' = [sockets EXCEPT ![k][e].opened = TRUE, ![k][e].qrTimeout = qrTimeoutCleared(@),
                                ![k][e].qrShown = FALSE, ![k][e].qrSeq = 0]
  /\ qrLocks' = IF hadTimer THEN [qrLocks EXCEPT ![k] = FALSE] ELSE qrLocks
  /\ connectionLocks' = IF hadTimer THEN [connectionLocks EXCEPT ![k] = FALSE] ELSE connectionLocks
  /\ statusObj' = IF sid # 0
                    THEN [statusObj EXCEPT ![k][sid] =
                            [status |-> "connected", qrCode |-> 0, error |-> "none",
                             phoneNumber |-> IF user THEN TRUE ELSE @.phoneNumber]]
                    ELSE statusObj
  /\ reconnectAttempts' = IF sid # 0 THEN attemptsDeleted(k) ELSE reconnectAttempts
  /\ streak' = IF sid # 0 THEN [streak EXCEPT ![k] = 0] ELSE streak
  /\ last' = Step("open", k, e, "open", 0, FALSE)
  /\ UNCHANGED <<connections, connectionStatus, connectionPromises, authDir, nextEpoch,
                 reconnectTimers, calls, removals, budget>>

\* ------------------------------------------------------ handleConnectionUpdate
\* the codes of the list "reconectaveis"
reconectaveis == {restartRequired, loggedOut, connectionLost}

\* the if-chain of handleConnectionUpdate on a close: errorCode, whether the
\* error message contains "405", whether the stored status.error is "timeout"
Classify(errorCode, has405, timeoutError) ==
  IF errorCode = 408 \/ timeoutError THEN "ProvisioningTimeout"
  ELSE IF errorCode = badSession \/ errorCode = forbidden \/ has405 THEN "FatalTerminal"
  ELSE IF errorCode \in reconectaveis THEN "Retryable"
  ELSE "Unclassified"

\* variants: the comparison off by one, either way
AttemptsExhaustedLate(attempts) == attempts > MAX_RECONNECT_ATTEMPTS
AttemptsExhaustedEarly(attempts) == attempts >= MAX_RECONNECT_ATTEMPTS - 1

\* variant: the bound is never found reached
AttemptsExhaustedNever(attempts) == FALSE

\* attempts >= MAX_RECONNECT_ATTEMPTS
AttemptsExhausted(attempts) == attempts >= MAX_RECONNECT_ATTEMPTS

\* variant: the count is stored without being incremented
attemptsSame(k, attempts) == [reconnectAttempts EXCEPT ![k] = attempts]

\* this.reconnectAttempts.set(connectionId, attempts + 1)
attemptsIncremented(k, attempts) == [reconnectAttempts EXCEPT ![k] = attempts + 1]

\* socket e emits connection.update {connection: "close"} with the given
\* error: the listener (an armed or fired timer clears both locks), then
\* handleConnectionUpdate up to its first await; op names the step ("close":
\* the transport closed, "ended": the program had ended the socket)
OnClose(k, e, errorCode, has405, op) ==
  LET sk == sockets[k][e]
      hadTimer == sk.qrTimeout # "null"
      sid == connectionStatus[k]
      disp == IF sid = 0 THEN "NoStatus"
              ELSE Classify(errorCode, has405, statusObj[k][sid].error = "timeout")
      attempts == reconnectAttempts[k]
      retry == disp = "Retryable" /\ ~AttemptsExhausted(attempts)
      giveUp == disp = "Retryable" /\ AttemptsExhausted(attempts)
      removes == disp \in {"ProvisioningTimeout", "FatalTerminal"} \/ giveUp
      path == IF disp = "ProvisioningTimeout" THEN "timeout"
              ELSE IF disp = "FatalTerminal" THEN "fatal" ELSE "exhausted"
      objs == CASE disp = "ProvisioningTimeout" ->
                     [statusObj EXCEPT ![k][sid].status = "disconnected", ![k][sid].error = "timeout"]
                [] disp = "FatalTerminal" ->
                     [statusObj EXCEPT ![k][sid].status = "error", ![k][sid].error = "fatal"]
                [] giveUp ->
                     [statusObj EXCEPT ![k][sid].status = "error", ![k][sid].error = "exhausted"]
                [] retry ->
                     [statusObj EXCEPT ![k][sid].status = "disconnected", ![k][sid].error = "reconnecting"]
                [] OTHER -> statusObj
  IN
  /\ sockets' = [sockets EXCEPT ![k][e] = [NoSocket EXCEPT !.st = "closed", !.opened = sk.opened,
                                                         !.qrTimeout = qrTimeoutCleared(sk.qrTimeout)]]
  /\ qrLocks' = IF hadTimer THEN [qrLocks EXCEPT ![k] = FALSE] ELSE qrLocks
  /\ connectionLocks' = IF hadTimer \/ disp = "Retryable"
                          THEN [connectionLocks EXCEPT ![k] = FALSE] ELSE connectionLocks
  /\ reconnectAttempts' = IF retry THEN attemptsIncremented(k, attempts)
                          ELSE IF giveUp THEN attemptsDeleted(k)
                          ELSE reconnectAttempts
  /\ reconnectTimers' = IF retry THEN [reconnectTimers EXCEPT ![k] = @ \cup {e}] ELSE reconnectTimers
  /\ streak' = IF disp = "Retryable" THEN [streak EXCEPT ![k] = @ + 1] ELSE streak
  /\ removals' = IF removes THEN [removals EXCEPT ![k][e] = RemoveStart(k, path, sid)] ELSE removals
  /\ connections' = IF retry THEN [connections EXCEPT ![k] = 0] ELSE connections
  /\ connectionStatus' = IF removes /\ connections[k] = 0
                           THEN [connectionStatus EXCEPT ![k] = 0] ELSE connectionStatus
  /\ statusObj' = Reachable(objs, connectionStatus', removals')
  /\ last' = Step(op, k, e, IF giveUp THEN "RetriesExhausted" ELSE disp, errorCode, has405)
  /\ UNCHANGED <<connectionPromises, authDir, nextEpoch, calls, budget>>

\* the transport closes a live socket of its own accord
TransportClose(k, e, errorCode, has405) ==
  /\ ~MidTurn
  /\ sockets[k][e].st = "live"
  /\ OnClose(k, e, errorCode, has405, "close")

\* the close event of a socket the program ended (socket.end(undefined): no
\* error) or signed out (socket.logout(): loggedOut), delivered in a later turn
ProvokedClose(k, e) ==
  /\ ~MidTurn
  /\ sockets[k][e].st = "ended"
  /\ OnClose(k, e, sockets[k][e].provoked, FALSE, "ended")

\* the close event emitted inside logout(), handled before removeConnection
\* resumes
CloseInsideLogout(k, o) ==
  /\ removals[k][o].pc = "loggedOut"
  /\ sockets[k][removals[k][o].sock].st = "ended"
  /\ OnClose(k, removals[k][o].sock, sockets[k][removals[k][o].sock].provoked, FALSE, "ended")

\* ------------------------------------------------------------ send operations
\* the operations that use the registered socket of a key
SendOps == {"sendTextMessage", "sendMediaMessage", "sendMediaMessageBase64", "checkWhatsappNumber"}

\* variant: the status is not looked at
sendGuardSocketOnly(k) == IF connections[k] = 0 THEN "NotFound" ELSE "invoked"

\* the two tests every send operation starts with: without a registered socket
\* it throws "Conexão não encontrada", with a status that is absent or not
\* connected it throws "Conexão não está ativa"; otherwise it goes on to call
\* the socket (sendMessage, onWhatsApp)
sendGuard(k) ==
  IF connections[k] = 0 THEN "NotFound"
  ELSE IF StatusOf(k) # "connected" THEN "NotConnected"
  ELSE "invoked"

\* a caller calls send operation op for key k: the tests are made at the time
\* of the call (checkWhatsappNumber awaits the normalisation of the number
\* between its tests and its call of the socket); no map is written
Send(k, op) ==
  /\ ~MidTurn
  /\ last' = Step(op, k, connections[k], sendGuard(k), 0, FALSE)
  /\ UNCHANGED <<connections, connectionStatus, statusObj, connectionLocks, connectionPromises,
                 reconnectAttempts, qrLocks, authDir, sockets, nextEpoch, reconnectTimers,
                 calls, removals, streak, budget>>

\* ------------------------------------------------------------- specification
\* the steps of createConnection and of the delayed reconnection
CreateSteps(k) ==
  \/ \E e \in Epochs : ReconnectTimerFires(k, e)
  \/ \E c \in Slots : DebounceDone(k, c)
  \/ \E c \in Slots, fails \in BOOLEAN : IoDone(k, c, fails)

\* the steps of removeConnection
RemoveSteps(k) ==
  \/ \E o \in 0..MaxEpoch, sync \in BOOLEAN : LogoutResolves(k, o, sync)
  \/ \E o \in 0..MaxEpoch : LogoutRejects(k, o)
  \/ \E o \in 0..MaxEpoch : RemoveFsDone(k, o)

\* the rest of the turn in which logout() resolved and emitted the close
SameTurn(k) ==
  \/ \E o \in 0..MaxEpoch : CloseInsideLogout(k, o)
  \/ \E o \in 0..MaxEpoch : RemoveResumes(k, o)

\* pairing: QR payloads, the QR timer, the open event
PairingSteps(k) ==
  \/ \E e \in Epochs, sync \in BOOLEAN : QrTimeoutFires(k, e, sync)
  \/ \E e \in Epochs : QrEvent(k, e)
  \/ \E e \in Epochs : OpenEvent(k, e)

\* close events
CloseSteps(k) ==
  \/ \E e \in Epochs, code \in CloseCodes, has405 \in BOOLEAN : TransportClose(k, e, code, has405)
  \/ \E e \in Epochs : ProvokedClose(k, e)

Next ==
  \E k \in Active :
    \/ UserCreate(k)
    \/ UserRemove(k)
    \/ CreateSteps(k)
    \/ RemoveSteps(k)
    \/ SameTurn(k)
    \/ PairingSteps(k)
    \/ CloseSteps(k)

\* callers create and remove concurrently
Init == InitWith([creates |-> MaxUserCreates, removes |-> MaxUserRemoves, epochs |-> RaceEpochs])
Spec == Init /\ [][Next]_vars

\* one session left to the transport and the reconnection logic: a caller
\* creates, nobody removes.  Then logout() is only ever called by a close
\* handler, on the socket that has just closed: it emits nothing (NoMidTurn).
InitRetry == InitWith([creates |-> RetryCreates, removes |-> 0, epochs |-> RetryEpochs])
NextRetry ==
  \E k \in Active :
    \/ UserCreate(k)
    \/ CreateSteps(k)
    \/ RemoveSteps(k)
    \/ PairingSteps(k)
    \/ CloseSteps(k)
SpecRetry == InitRetry /\ [][NextRetry]_vars
NoMidTurn == ~MidTurn

\* callers create and remove concurrently, a third handle per key, pairing
\* windows that never elapse (no QR timer fires)
InitStale == InitWith([creates |-> MaxUserCreates, removes |-> MaxUserRemoves, epochs |-> StaleEpochs])
NextStale ==
  \E k \in Active :
    \/ UserCreate(k)
    \/ UserRemove(k)
    \/ CreateSteps(k)
    \/ RemoveSteps(k)
    \/ SameTurn(k)
    \/ \E e \in Epochs : QrEvent(k, e)
    \/ \E e \in Epochs : OpenEvent(k, e)
    \/ CloseSteps(k)
SpecStale == InitStale /\ [][NextStale]_vars

\* callers create again and again, nobody removes.  With two handles per key
\* a close handler never finds a live socket to sign out (NoMidTurn), so the
\* steps are those of NextRetry.
InitCallers == InitWith([creates |-> CallerCreates, removes |-> 0, epochs |-> CallerEpochs])
SpecCallers == InitCallers /\ [][NextRetry]_vars

\* callers create and remove while close handlers are suspended in
\* removeConnection: three handles per key, closes with forbidden or loggedOut
\* only, every creation succeeds, logout() emits nothing while it runs, and
\* neither the QR window nor the reconnection delay elapses
InitOverlap == InitWith([creates |-> OverlapCreates, removes |-> OverlapRemoves, epochs |-> OverlapEpochs])
NextOverlap ==
  \E k \in Active :
    \/ UserCreate(k)
    \/ UserRemove(k)
    \/ \E c \in Slots : DebounceDone(k, c)
    \/ \E c \in Slots : IoDone(k, c, FALSE)
    \/ \E o \in 0..MaxEpoch : LogoutResolves(k, o, FALSE)
    \/ \E o \in 0..MaxEpoch : LogoutRejects(k, o)
    \/ \E o \in 0..MaxEpoch : RemoveFsDone(k, o)
    \/ \E e \in Epochs : QrEvent(k, e)
    \/ \E e \in Epochs : OpenEvent(k, e)
    \/ \E e \in Epochs, code \in {forbidden, loggedOut} : TransportClose(k, e, code, FALSE)
    \/ \E e \in Epochs : ProvokedClose(k, e)
SpecOverlap == InitOverlap /\ [][NextOverlap]_vars

\* one session left to the transport and the reconnection logic, and callers
\* that send at any time
InitSend == InitWith([creates |-> SendCreates, removes |-> 0, epochs |-> SendEpochs])
NextSend ==
  \/ NextRetry
  \/ \E k \in Active, op \in SendOps : Send(k, op)
SpecSend == InitSend /\ [][NextSend]_vars

\* one session whose sockets never open and are all closed by the transport
\* with a code of the list reconectaveis; the QR window never elapses.  Every
\* timer that is set fires, every await settles and the transport closes every
\* socket it has made.
InitLoop == InitWith([creates |-> LoopCreates, removes |-> 0, epochs |-> LoopEpochs])
LoopClose(k) == \E e \in Epochs, code \in reconectaveis : TransportClose(k, e, code, FALSE)
LogoutSettles(k) ==
  \/ \E o \in 0..MaxEpoch : LogoutResolves(k, o, FALSE)
  \/ \E o \in 0..MaxEpoch : LogoutRejects(k, o)
NextLoop ==
  \E k \in Active :
    \/ UserCreate(k)
    \/ CreateSteps(k)
    \/ LogoutSettles(k)
    \/ \E o \in 0..MaxEpoch : RemoveFsDone(k, o)
    \/ \E e \in Epochs : QrEvent(k, e)
    \/ LoopClose(k)
SpecLoop ==
  /\ InitLoop /\ [][NextLoop]_vars
  /\ \A k \in Keys :
       /\ WF_vars(CreateSteps(k))
       /\ WF_vars(LogoutSettles(k))
       /\ WF_vars(\E o \in 0..MaxEpoch : RemoveFsDone(k, o))
       /\ WF_vars(LoopClose(k))

\* two sessions side by side, each created once by a caller and left to the
\* transport and the reconnection logic
InitPair == InitFor([k \in Keys |-> [creates |-> PairCreates, removes |-> 0, epochs |-> PairEpochs]])
SpecPair == InitPair /\ [][NextRetry]_vars

\* the service starts with the session folder of key "a" on disk, written by
\* an earlier run of the process (PreviousRun), which loadExistingConnections
\* reloads; a caller creates, nobody removes
PreviousRun == MaxEpoch + 1
InitReload ==
  InitState([k \in Keys |-> IF k = "a"
               THEN [creates |-> ReloadCreates, removes |-> 0, epochs |-> ReloadEpochs, reloads |-> 1]
               ELSE [creates |-> 0, removes |-> 0, epochs |-> 0, reloads |-> 0]],
            [k \in Keys |-> IF k = "a" THEN PreviousRun ELSE 0])
NextReload ==
  \E k \in Active :
    \/ StartupReload(k)
    \/ UserCreate(k)
    \/ CreateSteps(k)
    \/ RemoveSteps(k)
    \/ PairingSteps(k)
    \/ CloseSteps(k)
SpecReload == InitReload /\ [][NextReload]_vars

\* ------------------------------------------------------------------ properties
\* the createConnection invocations of key k that are running a creation sequence
Inflight(k) == {c \in Slots : calls[k][c].pc \in {"debounce", "io"}}
\* the registered status object of key k (meaningful when there is one)
Registered(k) == statusObj[k][connectionStatus[k]]
\* the steps that handle a close event
CloseOps == {"close", "ended"}
\* the last step handled a close of key k in the reconnectable branch
RetryableClose(k) ==
  last.op \in CloseOps /\ last.key = k /\ last.tag \in {"Retryable", "RetriesExhausted"}
\* key k has reached Connected at some time
WasConnected(k) == \E e \in Epochs : sockets[k][e].opened
\* the registered status of key k is the one the QR timer callback leaves
TimerStatus(k) ==
  connectionStatus[k] # 0 /\ Registered(k).status = "error" /\ Registered(k).error = "timeout"

\* at most one creation sequence per key; a call that found one in flight
\* holds its promise; a call made while one is in flight does nothing else
C1_OneCreationGuard ==
  \A k \in Keys :
    /\ Cardinality(Inflight(k)) <= 1
    /\ \A d \in Slots : calls[k][d].pc = "joined" =>
         /\ calls[k][d].joinOf \in Inflight(k)
         /\ connectionPromises[k] = calls[k][d].joinOf
         /\ calls[k][d].start = calls[k][calls[k][d].joinOf].start
    /\ (last.op \in {"create", "reconnect"} /\ last.key = k /\ Inflight(k) # {})
         => last.tag \in {"create", "join"}
\* the calls awaiting one promise return in one step; since any of them
\* started, one socket was made if the creation succeeded, none if it threw
C1_OneHandlePerPromise ==
  \A k \in Keys : \A c \in Slots :
    (calls[k][c].pc # "idle" /\ calls'[k][c].pc = "idle") =>
      /\ \A d \in Slots : calls'[k][d].pc = "idle"
      /\ nextEpoch'[k] = calls[k][c].start + (IF last'.op = "io" /\ last'.tag # "throw" THEN 1 ELSE 0)
\* C1: per key at most one creation sequence is in progress; a createConnection
\* call issued while one is in flight (debounce included) is given that
\* creation's promise, all the calls awaiting it are settled together, and
\* exactly one socket is made for all of them when the creation succeeds.
C1_SingleCreation == [](C1_OneCreationGuard) /\ [][C1_OneHandlePerPromise]_vars
C1_Witness ==
  \E k \in Keys : \E c, d \in Slots :
    calls[k][c].pc = "io" /\ calls[k][d].pc = "joined" /\ calls[k][d].joinOf = c

\* C2: a key never has two live sockets (made, not ended, no close reported),
\* that is, no socket is made while an earlier one of the key is live.
C2_OneLiveHandle ==
  \A k \in Keys : Cardinality({e \in Epochs : sockets[k][e].st = "live"}) <= 1

\* C3: reconnectAttempts never exceeds MAX_RECONNECT_ATTEMPTS, and the close
\* that is the (MAX_RECONNECT_ATTEMPTS + 1)-th in a row handled in the
\* reconnectable branch (no open in between) sets the status to error with the
\* exhausted-retries diagnostic and schedules no reconnection.
C3_BoundedRetries ==
  \A k \in Keys :
    /\ reconnectAttempts[k] <= MAX_RECONNECT_ATTEMPTS
    /\ (RetryableClose(k) /\ streak[k] = MAX_RECONNECT_ATTEMPTS + 1) =>
         /\ last.tag = "RetriesExhausted"
         /\ connectionStatus[k] # 0
         /\ Registered(k).status = "error"
         /\ Registered(k).error = "exhausted"
         /\ last.e \notin reconnectTimers[k]
C3_Witness ==
  \E k \in Keys :
    RetryableClose(k) /\ streak[k] = MAX_RECONNECT_ATTEMPTS + 1 /\ last.tag = "RetriesExhausted"

\* C4 as stated: after Connected, the third reconnectable close in a row
\* leaves the status error and no reconnectAttempts entry.
C4_ThirdIsFatal ==
  \A k \in Keys :
    (RetryableClose(k) /\ WasConnected(k) /\ streak[k] = 3) =>
      /\ connectionStatus[k] # 0
      /\ Registered(k).status = "error"
      /\ reconnectAttempts[k] = 0
\* C4: after Connected, the third reconnectable close in a row leaves the
\* status disconnected, reconnectAttempts at 3 and a reconnection scheduled;
\* the fourth sets the status to error and deletes the reconnectAttempts entry.
C4_FourthIsFatal ==
  \A k \in Keys :
    (RetryableClose(k) /\ WasConnected(k)) =>
      /\ streak[k] = 3 =>
           /\ last.tag = "Retryable"
           /\ connectionStatus[k] # 0
           /\ Registered(k).status = "disconnected"
           /\ reconnectAttempts[k] = 3
           /\ last.e \in reconnectTimers[k]
      /\ streak[k] = 4 =>
           /\ last.tag = "RetriesExhausted"
           /\ connectionStatus[k] # 0
           /\ Registered(k).status = "error"
           /\ reconnectAttempts[k] = 0
           /\ last.e \notin reconnectTimers[k]
C4_Witness ==
  \E k \in Keys :
    RetryableClose(k) /\ WasConnected(k) /\ streak[k] = 4 /\ reconnectAttempts[k] = 0

\* C5: a close reported by the transport that matches none of the timeout,
\* fatal and reconnectable branches takes the status out of
\* connecting/connected, records an error in it and deregisters the socket.
C5_UnclassifiedIsTerminal ==
  (last.op = "close" /\ last.tag = "Unclassified") =>
    /\ connectionStatus[last.key] # 0
    /\ Registered(last.key).status \notin {"connecting", "connected"}
    /\ Registered(last.key).error # "none"
    /\ connections[last.key] # last.e

\* C6: the branch a close reported by the transport is handled in is decided
\* by the error code and the error message alone, whatever the stored status.
C6_ClassifiedByCodeAlone ==
  (last.op = "close" /\ last.tag # "NoStatus") =>
    (IF last.tag = "RetriesExhausted" THEN "Retryable" ELSE last.tag)
      = Classify(last.code, last.has405, FALSE)

\* C7: a close reported by the transport with loggedOut deregisters the
\* socket, leaves the status in none of connecting, connected, disconnected,
\* schedules no reconnection and starts no purge of the credentials.
C7_LoggedOutIsTerminal ==
  (last.op = "close" /\ last.code = loggedOut /\ ~last.has405 /\ last.tag # "NoStatus") =>
    /\ last.e \notin reconnectTimers[last.key]
    /\ connections[last.key] # last.e
    /\ connectionStatus[last.key] # 0
    /\ Registered(last.key).status \notin {"connecting", "connected", "disconnected"}
    /\ removals[last.key][last.e].pc = "idle"

\* after the timer callback: socket ended and deregistered, QR lock free, the
\* registered status (if there is one) error with error "timeout"
C8_TimerStep ==
  last.op = "qrTimeout" =>
    /\ sockets[last.key][last.e].st # "live"
    /\ connections[last.key] = 0
    /\ ~qrLocks[last.key]
    /\ connectionStatus[last.key] # 0 => TimerStatus(last.key)
\* neither the timer callback nor the close event of a socket that was ended
\* without an error schedules a reconnection
C8_NoReconnection ==
  /\ last'.op = "qrTimeout" => reconnectTimers' = reconnectTimers
  /\ (last'.op = "ended" /\ last'.code = Undef) => reconnectTimers' = reconnectTimers
\* C8: when the QR timer of a socket fires, the socket is ended and
\* deregistered, the status becomes error with status.error "timeout", and no
\* reconnection is scheduled, neither by the timer callback nor by the close
\* event the ending provokes.
C8_ProvisioningTimeout == [](C8_TimerStep) /\ [][C8_NoReconnection]_vars
C8_Witness ==
  \E k \in Keys :
    /\ last.op = "qrTimeout" /\ last.key = k
    /\ TimerStatus(k)
    /\ sockets[k][last.e].st = "ended"

\* C9: while the registered status is the one the QR timer left, a
\* non-reconnection createConnection is not turned away: it starts a creation
\* sequence (or is given the one in flight); and a non-reconnection creation
\* that succeeds leaves the credentials folder fresh (of the new socket), the
\* new socket registered and live, and the status connecting.
C9_CreateAfterTimeout ==
  \A k \in Keys :
    /\ (TimerStatus(k) /\ connectionPromises[k] = 0) => CreateBranch(k, FALSE) = "create"
    /\ (TimerStatus(k) /\ last.op = "create" /\ last.key = k) => last.tag \in {"create", "join"}
    /\ (last.op = "io" /\ last.key = k /\ last.tag = "created") =>
         /\ connections[k] = last.e
         /\ sockets[k][last.e].st = "live"
         /\ connectionStatus[k] = last.e
         /\ Registered(k).status = "connecting"
         /\ authDir[k] = last.e
C9_Witness ==
  \E k \in Keys :
    last.op = "create" /\ last.key = k /\ last.tag = "create" /\ TimerStatus(k)

\* C10 as stated: a QR event after the first of its socket leaves status.qrCode
\* as it was.
C10_LaterQrIgnored ==
  (last.op = "qr" /\ sockets[last.key][last.e].qrSeq > 1 /\ connectionStatus[last.key] # 0) =>
    Registered(last.key).qrCode # sockets[last.key][last.e].qrSeq
\* after a QR event the registered status shows its payload and is connecting
C10_EveryQrRecorded ==
  (last.op = "qr" /\ connectionStatus[last.key] # 0) =>
    /\ Registered(last.key).qrCode = sockets[last.key][last.e].qrSeq
    /\ Registered(last.key).status = "connecting"
\* a QR timer is started only by a QR event that finds the flag of its socket
\* and the QR lock of the key unset, and sets both; the flag stays set while
\* the socket is live and not open
C10_TimerOnce ==
  \A k \in Keys : \A e \in Epochs :
    /\ (last'.op = "qr" /\ last'.key = k /\ last'.e = e /\ last'.tag = "first") <=>
         (sockets[k][e].qrTimeout # "armed" /\ sockets'[k][e].qrTimeout = "armed")
    /\ (sockets[k][e].qrTimeout # "armed" /\ sockets'[k][e].qrTimeout = "armed") =>
         (~sockets[k][e].qrShown /\ ~qrLocks[k] /\ sockets'[k][e].qrShown /\ qrLocks'[k])
    /\ (sockets[k][e].st = "live" /\ sockets[k][e].qrShown /\ ~sockets[k][e].opened) =>
         (sockets'[k][e].qrShown \/ sockets'[k][e].st # "live" \/ sockets'[k][e].opened)
\* C10: every QR event records its payload in the registered status and sets
\* it connecting; the listener of a socket starts the QR timer at most once,
\* on the first QR event that finds the QR lock of the key free.
C10_QrSurfacing == [](C10_EveryQrRecorded) /\ [][C10_TimerOnce]_vars
C10_Witness ==
  \E k \in Keys : \E e \in Epochs :
    /\ last.op = "qr" /\ last.key = k /\ last.e = e /\ last.tag = "later"
    /\ sockets[k][e].qrSeq = 2 /\ sockets[k][e].qrTimeout = "armed"
    /\ connectionStatus[k] # 0 /\ Registered(k).qrCode = 2

\* the steps in which a removeConnection invocation returns: true once the
\* session folder is gone, false from its catch block
RemoveReturns == {"removed", "logoutRejects"}

\* C11: when the handling of a close with a fatal code (badSession, forbidden)
\* has finished, that is, its removeConnection has returned, whether the
\* sign-out succeeded or failed, the status is registered as error with the
\* fatal diagnostic, the credentials folder of the key has been removed and no
\* reconnection is scheduled for the closed socket.
C11_FatalPurgesOnce ==
  (last.op \in RemoveReturns /\ last.tag = "fatal") =>
    /\ connectionStatus[last.key] # 0
    /\ Registered(last.key).status = "error"
    /\ Registered(last.key).error = "fatal"
    /\ authDir[last.key] = 0
    /\ last.e \notin reconnectTimers[last.key]

\* C12: a removeConnection issued by a caller that found a live socket
\* registered, and no createConnection issued by a caller after the first,
\* returns with the status of the key absent and with no reconnection
\* scheduled that would register a status again.
C12_RemovedIsNotFound ==
  [][\A k \in Keys :
       (/\ removals[k][0].pc # "idle" /\ removals'[k][0].pc = "idle"
        /\ removals[k][0].live
        /\ last'.op = "removed"
        /\ budget[k].creates = MaxUserCreates - 1)
       => (connectionStatus'[k] = 0 /\ reconnectTimers'[k] = {})]_vars

\* the branches in which createConnection returns a status at once
ReturnsStatus == {"lockedStatus", "current", "reconIgnored", "abort"}
\* a live socket is registered for key k
LiveRegistered(k) == connections[k] # 0 /\ sockets[k][connections[k]].st = "live"

C13_StatusOrPromise ==
  (last.op = "create" /\ StatusOf(last.key) \in {"connecting", "connected"}) =>
    /\ last.tag \in {"lockedStatus", "current", "join"}
    /\ last.tag = "join" <=> Inflight(last.key) # {}
\* such a call changes nothing but its own record (a call that joins the
\* creation in flight holds its promise)
C13_NoNewWork ==
  \A k \in Keys :
    (last'.op = "create" /\ last'.key = k /\ StatusOf(k) \in {"connecting", "connected"}) =>
      /\ UNCHANGED <<connections, connectionStatus, statusObj, connectionLocks,
                     connectionPromises, reconnectAttempts, qrLocks, authDir, sockets,
                     nextEpoch, reconnectTimers, removals, streak>>
      /\ \A c \in Slots :
           \/ calls'[k][c] = calls[k][c]
           \/ calls'[k][c].pc = "joined" /\ calls'[k][c].joinOf \in Inflight(k)
C14_AlreadyExists ==
  (/\ last.op = "create"
   /\ LiveRegistered(last.key)
   /\ StatusOf(last.key) \notin {"connecting", "connected"}) =>
    last.tag \notin ReturnsStatus

\* C15: a promise is registered for a key exactly while the call that
\* registered it runs its creation sequence; in the step in which the creation
\* returns or throws (and in the step of a call whose creation returned at
\* once) no promise is left registered, and after a throw the creation lock
\* is released too.
C15_MarkerRemoved ==
  \A k \in Keys :
    /\ connectionPromises[k] # 0 => connectionPromises[k] \in Inflight(k)
    /\ (last.key = k /\ last.op = "io") => connectionPromises[k] = 0
    /\ (last.key = k /\ last.op \in {"create", "reconnect"} /\ last.tag = "abort") =>
         connectionPromises[k] = 0
    /\ (last.key = k /\ last.op \in {"io", "debounce"} /\ last.tag = "throw") =>
         /\ connectionPromises[k] = 0
         /\ ~connectionLocks[k]
         /\ Inflight(k) = {}
C15_Witness ==
  \E k \in Keys :
    /\ last.key = k /\ last.op = "io" /\ last.tag = "throw"
    /\ connectionPromises[k] = 0 /\ ~connectionLocks[k]
    /\ \A c \in Slots : calls[k][c].pc = "idle"

\* C16 as stated: a send operation for a key without status fails with
\* NotFound; for a key whose status is not connected it fails with
\* NotConnected; the socket is called only when the status is connected.
C16_NotConnectedUnlessConnected ==
  last.op \in SendOps =>
    /\ (connectionStatus[last.key] = 0 /\ connections[last.key] = 0) => last.tag = "NotFound"
    /\ (connectionStatus[last.key] # 0 /\ StatusOf(last.key) # "connected") => last.tag = "NotConnected"
    /\ last.tag = "invoked" => StatusOf(last.key) = "connected"
\* C16: a send operation calls the socket only when a socket is registered and
\* the registered status is connected at the time of the call; without a
\* registered socket it fails with NotFound, whatever the status; with a
\* registered socket and a status that is absent or not connected it fails
\* with NotConnected.
C16_SendGuarded ==
  last.op \in SendOps =>
    /\ last.tag = "invoked" <=> (connections[last.key] # 0 /\ StatusOf(last.key) = "connected")
    /\ last.tag = "NotFound" <=> connections[last.key] = 0
    /\ last.tag = "NotConnected" <=> (connections[last.key] # 0 /\ StatusOf(last.key) # "connected")
C16_Witness ==
  /\ last.op \in SendOps /\ last.tag = "NotFound"
  /\ StatusOf(last.key) = "disconnected"
  /\ \E e \in Epochs : sockets[last.key][e].opened

\* the open handler leaves the registered status connected and no counter
C17_OpenStep ==
  (last.op = "open" /\ connectionStatus[last.key] # 0) =>
    /\ Registered(last.key).status = "connected"
    /\ reconnectAttempts[last.key] = 0
\* a step that makes the registered status connected leaves no counter; the
\* counter entry is deleted only by an open event and by the close that finds
\* the bound reached
C17_ResetSteps ==
  \A k \in Keys :
    /\ (StatusOf(k) # "connected" /\ StatusOf(k)' = "connected") => reconnectAttempts'[k] = 0
    /\ (reconnectAttempts[k] # 0 /\ reconnectAttempts'[k] = 0) =>
         /\ last'.key = k
         /\ \/ last'.op = "open" /\ StatusOf(k)' = "connected"
            \/ last'.op \in CloseOps /\ last'.tag = "RetriesExhausted"
               /\ reconnectAttempts[k] = MAX_RECONNECT_ATTEMPTS
\* C17: whenever the registered status of a key becomes connected, the key
\* has no reconnectAttempts entry in that state; the entry is deleted in no
\* other step than an open event and the close that finds the bound reached.
C17_ResetOnConnected == [](C17_OpenStep) /\ [][C17_ResetSteps]_vars

\* C18: a removeConnection issued by a caller for a key that has neither a
\* status nor a registered socket does not go on to the removal of the
\* session folder, from which it can only return true, and changes nothing.
C18_UnknownKeyNotFound ==
  [][\A k \in Keys :
       (last'.op = "remove" /\ last'.key = k /\ connectionStatus[k] = 0 /\ connections[k] = 0) =>
         /\ removals'[k][0].pc # "fs"
         /\ UNCHANGED <<connections, connectionStatus, statusObj, authDir>>]_vars

\* a socket made after socket e of key k is live
LaterLive(k, e) == \E f \in Epochs : f > e /\ sockets[k][f].st = "live"

\* C19: when the QR timer of a socket or the delayed reconnection scheduled by
\* the close of a socket fires while a socket made later for the key is live,
\* the registered socket, the registered status, the locks and the
\* reconnectAttempts entry of the key are left as they were.
C19_StaleTaskNoOp ==
  [][\A k \in Keys :
       (last'.op \in {"qrTimeout", "reconnect"} /\ last'.key = k /\ LaterLive(k, last'.e)) =>
         /\ connections'[k] = connections[k]
         /\ connectionStatus'[k] = connectionStatus[k]
         /\ statusObj'[k] = statusObj[k]
         /\ connectionLocks'[k] = connectionLocks[k]
         /\ qrLocks'[k] = qrLocks[k]
         /\ reconnectAttempts'[k] = reconnectAttempts[k]]_vars

\* C20: when socket.logout() has rejected inside removeConnection and
\* removeConnection has returned, no socket is registered for the key.
C20_DisposedOnEveryPath ==
  last.op = "logoutRejects" => connections[last.key] = 0

\* C21: when the handling of a reconnectable close that found
\* reconnectAttempts at MAX_RECONNECT_ATTEMPTS has finished, that is, its
\* removeConnection has returned, no socket is registered for the key, the key
\* has no reconnectAttempts entry, no reconnection is scheduled for the closed
\* socket, and the registered status is error with the exhausted-retries
\* diagnostic.
C21_ExhaustedStaysFatal ==
  (last.op \in RemoveReturns /\ last.tag = "exhausted") =>
    /\ connections[last.key] = 0
    /\ reconnectAttempts[last.key] = 0
    /\ last.e \notin reconnectTimers[last.key]
    /\ connectionStatus[last.key] # 0
    /\ Registered(last.key).status = "error"
    /\ Registered(last.key).error = "exhausted"

\* C22: a close reported by the transport with connectionLost (and no "405"
\* in its message) is handled in the reconnectable branch; below the bound it
\* increments reconnectAttempts, leaves the status disconnected and schedules
\* a reconnection.
C22_ConnectionLostRetries ==
  (last.op = "close" /\ last.code = connectionLost /\ ~last.has405 /\ last.tag # "NoStatus") =>
    /\ last.tag \in {"Retryable", "RetriesExhausted"}
    /\ last.tag = "Retryable" =>
         /\ reconnectAttempts[last.key] > 0
         /\ connectionStatus[last.key] # 0
         /\ Registered(last.key).status = "disconnected"
         /\ last.e \in reconnectTimers[last.key]

\* C23: a close event is handled in the timeout branch only if the QR timer of
\* the socket that closed has fired.
C23_TimeoutOnlyByTimer ==
  [][\A k \in Keys : \A e \in Epochs :
       (last'.op \in CloseOps /\ last'.key = k /\ last'.e = e /\ last'.tag = "ProvisioningTimeout") =>
         sockets[k][e].qrTimeout = "fired"]_vars

\* a close handled in the reconnectable branch below the bound: the counter
\* goes up by one, the registered status is disconnected, no socket is
\* registered, the creation lock is free, one reconnection is added to those
\* scheduled and no creation is started in the step itself
C24_RetryStep ==
  \A k \in Keys : \A e \in Epochs :
    (last'.op \in CloseOps /\ last'.key = k /\ last'.e = e /\ last'.tag = "Retryable") =>
      /\ reconnectAttempts[k] < MAX_RECONNECT_ATTEMPTS
      /\ reconnectAttempts'[k] = reconnectAttempts[k] + 1
      /\ StatusOf(k)' = "disconnected"
      /\ connections'[k] = 0
      /\ ~connectionLocks'[k]
      /\ e \notin reconnectTimers[k]
      /\ reconnectTimers'[k] = reconnectTimers[k] \cup {e}
      /\ calls'[k] = calls[k]
\* the scheduled reconnection fires once and is subject to the guards of
\* createConnection: fired while a creation is in flight, the lock is held,
\* the status is connecting or a socket is registered, it starts no creation
C24_GuardedReconnect ==
  \A k \in Keys : \A e \in Epochs :
    (last'.op = "reconnect" /\ last'.key = k /\ last'.e = e) =>
      /\ e \in reconnectTimers[k]
      /\ reconnectTimers'[k] = reconnectTimers[k] \ {e}
      /\ (Inflight(k) # {} \/ connectionLocks[k] \/ StatusOf(k) = "connecting" \/ connections[k] # 0) =>
           (last'.tag # "create" /\ Inflight(k)' = Inflight(k))
      /\ last'.tag = "create" => Cardinality(Inflight(k)') = 1
\* C24: a close handled in the reconnectable branch with reconnectAttempts
\* below MAX_RECONNECT_ATTEMPTS increments the counter by one, sets the
\* registered status disconnected, deregisters the socket, releases the
\* creation lock and schedules exactly one delayed createConnection(k, true),
\* which goes through the guards of createConnection when it fires.
C24_RetryableReconnects == [][C24_RetryStep /\ C24_GuardedReconnect]_vars
C24_Witness ==
  \E k \in Keys :
    /\ last.op = "close" /\ last.key = k /\ last.tag = "Retryable"
    /\ reconnectAttempts[k] = 2
    /\ StatusOf(k) = "disconnected"
    /\ connections[k] = 0 /\ ~connectionLocks[k]
    /\ reconnectTimers[k] = {last.e}

\* a delayed reconnection is waiting for the creation in flight of key k
TimerCallWaiting(k) == \E c \in Slots : calls[k][c].pc # "idle" /\ calls[k][c].timer
\* the registered status of key k, if there is one, is the one the catch block
\* of the delayed reconnection writes
ReconnectFailedStatus(k) ==
  connectionStatus[k] # 0 =>
    (Registered(k).status = "error" /\ Registered(k).error = "reconnectFailed")

\* C25: when the createConnection awaited by a delayed reconnection throws
\* before a socket was made (the creation it ran or joined fails, or the call
\* is turned away by the creation lock), the registered status of the key, if
\* there is one, becomes error with the failed-reconnection diagnostic, every
\* call waiting for that creation has returned, no socket was made and no
\* reconnection is scheduled by the step.
C25_FailedReconnectIsFinal ==
  [][\A k \in Keys :
       /\ (last'.key = k /\ last'.op \in {"io", "debounce"} /\ last'.tag = "throw" /\ TimerCallWaiting(k)) =>
            /\ ReconnectFailedStatus(k)'
            /\ \A c \in Slots : calls'[k][c].pc = "idle"
            /\ nextEpoch'[k] = nextEpoch[k]
            /\ reconnectTimers'[k] = reconnectTimers[k]
       /\ (last'.key = k /\ last'.op = "reconnect" /\ last'.tag = "lockedThrow") =>
            /\ ReconnectFailedStatus(k)'
            /\ calls'[k] = calls[k]
            /\ nextEpoch'[k] = nextEpoch[k]
            /\ reconnectTimers'[k] = reconnectTimers[k] \ {last'.e}]_vars
C25_Witness ==
  \E k \in Keys :
    /\ last.key = k /\ last.op = "io" /\ last.tag = "throw"
    /\ connectionStatus[k] # 0
    /\ Registered(k).status = "error" /\ Registered(k).error = "reconnectFailed"
    /\ reconnectTimers[k] = {}
    /\ budget[k].creates = MaxUserCreates - 1

\* nothing is under way for key k: no reconnection scheduled, no
\* createConnection and no removeConnection running, no socket live or ended
\* with its close event outstanding
Settled(k) ==
  /\ reconnectTimers[k] = {}
  /\ \A c \in Slots : calls[k][c].pc = "idle"
  /\ \A o \in 0..MaxEpoch : removals[k][o].pc = "idle"
  /\ \A e \in Epochs : sockets[k][e].st \in {"none", "closed"}
\* the registered status of key k is absent, error, or the disconnected of the
\* timeout branch
TerminalStatus(k) ==
  \/ StatusOf(k) \in {"none", "error"}
  \/ StatusOf(k) = "disconnected" /\ Registered(k).error = "timeout"
\* a step that schedules a reconnection increments reconnectAttempts by one,
\* to MAX_RECONNECT_ATTEMPTS at most, and without an open event the counter
\* goes down only in the close that finds the bound reached
C26_AttemptsBounded ==
  \A k \in Keys :
    /\ reconnectTimers[k] \subseteq reconnectTimers'[k] /\ reconnectTimers'[k] # reconnectTimers[k] =>
         /\ reconnectAttempts'[k] = reconnectAttempts[k] + 1
         /\ reconnectAttempts'[k] <= MAX_RECONNECT_ATTEMPTS
         /\ Cardinality(reconnectTimers'[k]) = Cardinality(reconnectTimers[k]) + 1
    /\ reconnectAttempts'[k] < reconnectAttempts[k] =>
         /\ last'.op \in CloseOps /\ last'.tag = "RetriesExhausted"
         /\ reconnectTimers'[k] = reconnectTimers[k]
\* C26: when no socket of a key opens and the transport closes every one of
\* them with a reconnectable code, at most MAX_RECONNECT_ATTEMPTS reconnections
\* are scheduled, and from every state with a reconnection scheduled the key
\* comes to rest: nothing scheduled, nothing running, no socket live, and a
\* registered status that is absent, error, or that of the timeout branch.
C26_NoRetryLoop ==
  /\ [][C26_AttemptsBounded]_vars
  /\ \A k \in Keys : (reconnectTimers[k] # {}) ~> (Settled(k) /\ TerminalStatus(k))
C26_Witness ==
  \E k \in Keys :
    /\ Settled(k) /\ TerminalStatus(k)
    /\ streak[k] = MAX_RECONNECT_ATTEMPTS + 1
    /\ last.op \in RemoveReturns /\ last.tag = "exhausted"

\* C27: the registered status of a key shows a QR payload (status.qrCode) only
\* while its status is connecting.
C27_QrOnlyWhileConnecting ==
  \A k \in Keys :
    (connectionStatus[k] # 0 /\ Registered(k).qrCode # 0) => Registered(k).status = "connecting"

\* the branch a close is handled in, as the step records it
BranchOf(tag) == IF tag = "RetriesExhausted" THEN "Retryable" ELSE tag
\* the QR timer of a socket fires only while it is armed and the socket has
\* reported neither open nor close; an open or close event leaves no timer;
\* a close that finds the timer armed is handled in the branch its code, its
\* message and the stored status.error decide
C28_TimerCancelled ==
  \A k \in Keys : \A e \in Epochs :
    /\ (last'.op = "qrTimeout" /\ last'.key = k /\ last'.e = e) =>
         /\ sockets[k][e].qrTimeout = "armed"
         /\ ~sockets[k][e].opened
         /\ sockets[k][e].st # "closed"
    /\ (last'.op \in {"open", "close", "ended"} /\ last'.key = k /\ last'.e = e) =>
         sockets'[k][e].qrTimeout = "null"
    /\ (sockets[k][e].opened \/ sockets[k][e].st = "closed") =>
         (sockets'[k][e].qrTimeout = "null" /\ sockets'[k][e].st # "none")
    /\ (/\ last'.op \in CloseOps /\ last'.key = k /\ last'.e = e
        /\ sockets[k][e].qrTimeout = "armed" /\ connectionStatus[k] # 0) =>
         BranchOf(last'.tag) = Classify(last'.code, last'.has405, Registered(k).error = "timeout")
\* C28: once a socket whose QR timer is armed reports open or close, the timer
\* is cleared and never fires for that socket; the close is handled in the
\* branch that its code, its message and the stored status.error select, as
\* for a close without a timer.
C28_TimerClearedOnOpenClose == [][C28_TimerCancelled]_vars
\* socket 1, made by the only createConnection issued so far, has opened and
\* the creation lock is free: with no removal issued, only its listener
\* finding the timer set can have released the lock
C28_Witness ==
  \E k \in Keys :
    /\ last.op = "open" /\ last.key = k /\ last.e = 1
    /\ budget[k] = [creates |-> MaxUserCreates - 1, removes |-> MaxUserRemoves, epochs |-> RaceEpochs]
    /\ sockets[k][1].opened /\ sockets[k][1].qrTimeout = "null"
    /\ ~connectionLocks[k] /\ ~qrLocks[k]

\* C29: when removeConnection has returned true, the key has no
\* reconnectAttempts entry.
C29_CounterRemovedWithKey ==
  last.op = "removed" => reconnectAttempts[last.key] = 0

\* the socket made last for key k (meaningful once one was made)
CurrentEpoch(k) == nextEpoch[k] - 1

\* C30: a creation that succeeds registers a status without phoneNumber, and
\* whenever the registered status of a key carries a phoneNumber, the socket
\* made last for the key has opened.
C30_IdentityOnlyWhenConnected ==
  \A k \in Keys :
    /\ (last.op = "io" /\ last.key = k /\ last.tag # "throw") =>
         (connectionStatus[k] # 0 /\ ~Registered(k).phoneNumber)
    /\ (connectionStatus[k] # 0 /\ Registered(k).phoneNumber) =>
         (nextEpoch[k] > 1 /\ sockets[k][CurrentEpoch(k)].opened)

\* C31: a createConnection(k, true) made while a socket is registered for the
\* key and the registered status is connecting returns that status (the lock
\* is held, or the reconnection is ignored because the key is connecting); it
\* ends no socket, makes none, starts no creation and leaves sockets, QR
\* timers, statuses, locks, counter and session folder as they were.
C31_ReconnectWhileConnecting ==
  [][\A k \in Keys :
       (/\ last'.op = "reconnect" /\ last'.key = k
        /\ connections[k] # 0 /\ StatusOf(k) = "connecting") =>
         /\ last'.tag \in {"lockedStatus", "reconIgnored"}
         /\ UNCHANGED <<connections, connectionStatus, statusObj, connectionLocks,
                        connectionPromises, reconnectAttempts, qrLocks, authDir, sockets,
                        nextEpoch, calls, removals>>]_vars
C31_Witness ==
  \E k \in Keys :
    /\ last.op = "reconnect" /\ last.key = k /\ last.tag = "lockedStatus"
    /\ LiveRegistered(k) /\ StatusOf(k) = "connecting"
    /\ connectionStatus[k] = connections[k]

\* C32: a step taken for one key (a call, a settled await, a transport event,
\* a timer) leaves the registered socket, the status and its object, the
\* locks, the promise, the counter, the session folder, the sockets, the
\* scheduled reconnections and the running calls of every other key unchanged.
C32_KeysIndependent ==
  [][\A k \in Keys :
       last'.key # k =>
         /\ connections'[k] = connections[k]
         /\ connectionStatus'[k] = connectionStatus[k]
         /\ statusObj'[k] = statusObj[k]
         /\ connectionLocks'[k] = connectionLocks[k]
         /\ qrLocks'[k] = qrLocks[k]
         /\ connectionPromises'[k] = connectionPromises[k]
         /\ reconnectAttempts'[k] = reconnectAttempts[k]
         /\ authDir'[k] = authDir[k]
         /\ sockets'[k] = sockets[k]
         /\ reconnectTimers'[k] = reconnectTimers[k]
         /\ calls'[k] = calls[k]
         /\ removals'[k] = removals[k]]_vars
C32_Witness ==
  /\ last.op = "open" /\ last.key = "a"
  /\ StatusOf("a") = "connected" /\ reconnectAttempts["a"] = 0
  /\ StatusOf("b") = "disconnected" /\ reconnectAttempts["b"] = 1
  /\ reconnectTimers["b"] # {}

\* C33: while the socket registered for a key has reported close, the
\* registered status of the key is not connected, and no send operation calls
\* a socket that has reported close.
C33_NoSendAfterClose ==
  /\ \A k \in Keys :
       (connections[k] # 0 /\ sockets[k][connections[k]].st = "closed") => StatusOf(k) # "connected"
  /\ (last.op \in SendOps /\ last.tag = "invoked") => sockets[last.key][last.e].st # "closed"

\* C34: once a removeConnection issued by a caller has returned true, leaving
\* the key without socket and status and with no creation in flight, the step
\* that follows starts no creation and makes no socket for the key, unless it
\* is a caller calling createConnection.
C34_RemovedStaysRemoved ==
  [][\A k \in Keys :
       (/\ last.op = "removed" /\ last.tag = "api" /\ last.key = k
        /\ connections[k] = 0 /\ connectionStatus[k] = 0 /\ Inflight(k) = {}
        /\ last'.op # "create") =>
         (Inflight(k)' = {} /\ nextEpoch'[k] = nextEpoch[k])]_vars

\* nothing but createConnection calls is under way for key k: no
\* removeConnection running, no reconnection scheduled, no socket live or ended
\* with its close event outstanding
Quiet(k) ==
  /\ reconnectTimers[k] = {}
  /\ \A o \in 0..MaxEpoch : removals[k][o].pc = "idle"
  /\ \A e \in Epochs : sockets[k][e].st \in {"none", "closed"}

\* C35: a createConnection issued by a caller while the registered status of
\* the key is absent, error or disconnected, no creation is in flight and
\* nothing else is under way for the key starts a creation: it does not throw
\* and it does not return that status.
C35_NeverStuck ==
  (/\ last.op = "create" /\ last.tag # "join"
   /\ StatusOf(last.key) \in {"none", "error", "disconnected"}
   /\ Quiet(last.key)) =>
    last.tag = "create"

\* the registered status object of a key is the one created with the socket
\* made last for the key
C36_StatusOfCurrentEpoch ==
  \A k \in Keys : connectionStatus[k] # 0 => connectionStatus[k] = CurrentEpoch(k)
\* a step of the removeConnection awaited by the timeout or fatal branch of the
\* close handling of socket o, taken after a later socket was made for the
\* key, changes neither the registered socket, nor the registered status, nor
\* the creation lock, nor the session folder
C36_StaleHandlerInert ==
  \A k \in Keys : \A o \in Epochs :
    (/\ last'.key = k /\ last'.e = o
     /\ last'.op \in {"logoutResolves", "logoutRejects", "removed"}
     /\ last'.tag \in {"timeout", "fatal"}
     /\ CurrentEpoch(k) > o) =>
      /\ connections'[k] = connections[k]
      /\ connectionStatus'[k] = connectionStatus[k]
      /\ connectionLocks'[k] = connectionLocks[k]
      /\ authDir'[k] = authDir[k]
\* C36: the registered status of a key is always that of the socket made last
\* for it; the handling of the close of an earlier socket, resumed after its
\* await of removeConnection (timeout and fatal branches), does not replace
\* the status, release the creation lock or remove the session folder of a
\* socket made in the meantime.
C36_RegistryOfCurrentEpoch == [](C36_StatusOfCurrentEpoch) /\ [][C36_StaleHandlerInert]_vars

\* C37: whenever a socket is registered for a key a status is registered for
\* it too, and a createConnection that returns from the early abort of
\* _createConnectionInternal returns a status.
C37_HandleHasStatus ==
  \A k \in Keys :
    /\ connections[k] # 0 => connectionStatus[k] # 0
    /\ (last.key = k /\ last.op \in {"create", "reconnect"} /\ last.tag = "abort") =>
         connectionStatus[k] # 0
C37_Witness ==
  \E k \in Keys :
    /\ last.key = k /\ last.op = "create" /\ last.tag = "abort"
    /\ connections[k] # 0 /\ connectionStatus[k] # 0
    /\ Registered(k).status = "error"

\* after a removeConnection issued by a caller has returned true, with no
\* creation for the key in flight and no socket registered since, the creation
\* lock of the key is not held
C38_ReleasedByRemoval ==
  \A k \in Keys :
    (/\ last.op = "removed" /\ last.tag = "api" /\ last.key = k
     /\ Inflight(k) = {} /\ connections[k] = 0) => ~connectionLocks[k]

\* C38: the creation lock of a key is held only while a creation for the key
\* is in flight or a socket is registered for it, and it is not held after a
\* removeConnection issued by a caller has returned true.
C38_LockNotOrphaned ==
  /\ \A k \in Keys : connectionLocks[k] => (Inflight(k) # {} \/ connections[k] # 0)
  /\ C38_ReleasedByRemoval

\* the steps of createConnection, whoever called it
CreateOps == {"create", "reconnect", "reload", "debounce", "io"}

\* C39: a createConnection(k, true), be it the delayed reconnection or the
\* reload at startup, leaves the session folder of the key as it found it;
\* among the steps of createConnection only the creation work of a call with
\* isReconnection = false removes a session folder.
C39_ReconnectionKeepsCredentials ==
  [][\A k \in Keys :
       /\ \A c \in Slots :
            (/\ last'.op = "io" /\ last'.key = k
             /\ calls[k][c].pc = "io" /\ calls[k][c].recon /\ authDir[k] # 0) =>
              authDir'[k] = authDir[k]
       /\ (last'.op \in CreateOps /\ last'.key = k /\ authDir[k] # 0 /\ authDir'[k] # authDir[k]) =>
            /\ last'.op = "io"
            /\ \E c \in Slots : calls[k][c].pc = "io" /\ ~calls[k][c].recon]_vars
C39_Witness ==
  \E k \in Keys :
    /\ last.key = k /\ last.op = "io" /\ last.tag = "reconnected"
    /\ budget[k].reloads = 0 /\ budget[k].creates = ReloadCreates
    /\ reconnectAttempts[k] = 0
    /\ authDir[k] = PreviousRun

====
